---- MODULE Spec2Model ----
(***************************************************************************)
(* Model of the model-usage ledger of src/shared/model-tracking.ts:        *)
(* class ModelTracker (changes, taskTotals, processedRequests) driven by   *)
(* addChange and updateUsageStats, with the read operations                *)
(* getModelForTimestamp, getCurrentModel, getTaskTotals and getModelStats  *)
(* as operators over the state, and class ConversationState (messages)     *)
(* on top of it.                                                           *)
(*                                                                         *)
(* Conventions.  An optional JavaScript value is a sequence of length at   *)
(* most one: << >> is undefined/absent and << v >> is the value v.         *)
(* Strings that the code concatenates or compares by suffix (modelId,      *)
(* modelProvider, the OpenRouter model label) are sequences of characters. *)
(* Request ids are opaque and only compared for equality and truthiness.   *)
(* Costs are integers (units of the smallest currency amount).             *)
(***************************************************************************)
EXTENDS Integers, Sequences, FiniteSets, TLC

(* ------------------------------ bounds --------------------------------- *)

\* Largest timestamp passed to addChange / updateUsageStats; timestamps are 0..MaxTs.
MaxTs == 2

\* Largest number of periods in the timeline (addChange is disabled beyond it).
MaxChanges == 2

\* updateUsageStats is explored as long as the task totals weigh at most this.
MaxTotal == 10

\* Largest number of api_req_started messages that carry model changes.
MaxApiReqs == 2

\* Largest number of messages added to a conversation.
MaxMessages == 1

\* Largest sum of the figures of the distinct reports handed to a tracker.
MaxDelivered == 10

Timestamps == 0 .. MaxTs

(* ----------------------- optional values, strings ---------------------- *)

None == << >>

Some(v) == << v >>

\* JavaScript truthiness of an optional number: undefined and 0 are falsy.
TruthyNum(o) == o # None /\ o[1] # 0

\* JavaScript truthiness of an optional character string: undefined and "" are falsy.
TruthyStr(o) == o # None /\ Len(o[1]) > 0

\* JavaScript truthiness of an optional request id: undefined and "" are falsy.
TruthyId(o) == o # None /\ o[1] # ""

\* (x || 0) for an optional number.
OrZero(o) == IF o = None THEN 0 ELSE o[1]

\* Mutant of EndsWith: the two strings have to be equal.
EqualStrings(s, suffix) == s = suffix

\* String.prototype.endsWith on character sequences.
EndsWith(s, suffix) ==
    /\ Len(suffix) <= Len(s)
    /\ SubSeq(s, Len(s) - Len(suffix) + 1, Len(s)) = suffix

\* The template string `${modelProvider}/${modelId}`.
ModelKey(change) == change.modelProvider \o << "/" >> \o change.modelId

(* --------------------------- input domains ----------------------------- *)

\* (modelId, modelProvider) pairs offered to addChange.
Models ==
    { [modelId |-> << "g" >>, modelProvider |-> << "o" >>],
      [modelId |-> << "c" >>, modelProvider |-> << "a" >>] }

ZeroUsage ==
    [tokensIn |-> 0, tokensOut |-> 0, cost |-> 0, cacheWrites |-> 0, cacheReads |-> 0]

\* A stats argument with every key absent.
EmptyStats ==
    [id |-> None, model |-> None, timestamp |-> None,
     tokensIn |-> None, tokensOut |-> None, cost |-> None,
     cacheWrites |-> None, cacheReads |-> None,
     total_cost |-> None, tokens_prompt |-> None, tokens_completion |-> None]

\* Immediate (in-band) reports: no id, no model label, no own timestamp.
ImmediateReports ==
    { [EmptyStats EXCEPT !.tokensIn = Some(1), !.tokensOut = Some(1), !.cost = Some(1),
                         !.cacheWrites = Some(1)],
      EmptyStats }

RequestIds == { "r1" }

\* Model labels carried by delayed reports: a bare modelId, a full
\* provider/modelId, and a label that no period of Models ends with.
Labels == { << "g" >>, << "o", "/", "g" >>, << "x" >> }

\* Final figures carried by the delayed reports.
FinalPayloads ==
    { [EmptyStats EXCEPT !.total_cost = Some(1), !.tokens_prompt = Some(2),
                         !.tokens_completion = Some(1),
                         !.cacheWrites = Some(1), !.cacheReads = Some(1)] }

\* Delayed (OpenRouter generation details) reports.
DelayedReports ==
    { [f EXCEPT !.id = Some(r), !.model = Some(l), !.timestamp = t] :
        f \in FinalPayloads, r \in RequestIds, l \in Labels,
        t \in { None } \cup { Some(x) : x \in Timestamps } }

Reports == ImmediateReports \cup DelayedReports

\* A complete OpenRouter payload without cache counters and without own timestamp.
CompletePayload ==
    [EmptyStats EXCEPT !.id = Some("r1"), !.model = Some(<< "g" >>),
                       !.total_cost = Some(1), !.tokens_prompt = Some(2),
                       !.tokens_completion = Some(1)]

\* OpenRouter payloads in which exactly one of the keys model, total_cost,
\* tokens_prompt, tokens_completion is missing.
MalformedReports ==
    { [CompletePayload EXCEPT !.model = None],
      [CompletePayload EXCEPT !.total_cost = None],
      [CompletePayload EXCEPT !.tokens_prompt = None],
      [CompletePayload EXCEPT !.tokens_completion = None] }

\* Delayed reports that differ in their model label only: the labels of
\* Labels, a suffix of the key that starts inside the provider part, and the
\* provider alone (a part of the key that is not a suffix of it).
LabelledReports ==
    { [CompletePayload EXCEPT !.model = Some(l)] :
        l \in Labels \cup { << "/", "g" >>, << "o" >> } }

\* Reports of a delayed-report channel that delivers at least once: an
\* immediate report and two OpenRouter reports, each with its own request id
\* and its own model label, that may be handed over again and again.
RedeliveredReports ==
    { [EmptyStats EXCEPT !.tokensIn = Some(1), !.tokensOut = Some(1), !.cost = Some(1),
                         !.cacheWrites = Some(1)],
      [EmptyStats EXCEPT !.id = Some("r1"), !.model = Some(<< "g" >>),
                         !.total_cost = Some(1), !.tokens_prompt = Some(1),
                         !.tokens_completion = Some(0), !.cacheReads = Some(1)],
      [EmptyStats EXCEPT !.id = Some("r2"), !.model = Some(<< "a", "/", "c" >>),
                         !.total_cost = Some(1), !.tokens_prompt = Some(1),
                         !.tokens_completion = Some(0), !.cacheReads = Some(1)] }

\* Period lists handed to the constructor (initialChanges): an empty list, a
\* history whose only period is closed, and a closed period followed by the
\* open one.
PersistedTimelines ==
    LET closedPeriod ==
            [modelId |-> << "g" >>, modelProvider |-> << "o" >>, startTs |-> 0,
             endTs |-> Some(1),
             usage |-> [tokensIn |-> 1, tokensOut |-> 1, cost |-> 1,
                        cacheWrites |-> 1, cacheReads |-> 0]]
        openPeriod ==
            [modelId |-> << "c" >>, modelProvider |-> << "a" >>, startTs |-> 1,
             endTs |-> None,
             usage |-> [tokensIn |-> 2, tokensOut |-> 1, cost |-> 1,
                        cacheWrites |-> 0, cacheReads |-> 1]]
    IN  { << >>, << closedPeriod >>, << closedPeriod, openPeriod >> }

(* ------------------------------- state --------------------------------- *)

VARIABLES
    changes,            \* ModelTracker.changes: the period timeline
    taskTotals,         \* ModelTracker.taskTotals
    processedRequests,  \* ModelTracker.processedRequests
    last,               \* the call that produced this state: the operation, the path
                        \* it took, the period it resolved and the figures it was given
    messages,           \* ConversationState.messages
    reads,              \* what a caller holds from its latest getTaskTotals /
                        \* getModelStats / getAllChanges calls, << >> before any read
    twin,               \* a second ModelTracker constructed from the same
                        \* initialChanges array, << >> if there is none
    apiReqs,            \* the modelChanges carried by the api_req_started messages
                        \* of the task, oldest first
    delivered,          \* the reports handed to updateUsageStats so far: the request
                        \* ids among them and the sum of the distinct reports
    historyChanges,     \* ModelTracker.changes of the HistoryItem.ts revision, fed
                        \* the same calls as the tracker above; << >> if unused
    webview             \* the webview: modelNameRef of ModelNameProvider, and the
                        \* props and outcome of the latest rendering / aggregation

vars ==
    << changes, taskTotals, processedRequests, last, messages, reads, twin, apiReqs,
       delivered, historyChanges, webview >>

\* The webview before anything was stored or rendered.
EmptyWebview == [modelNameRef |-> << >>, props |-> << >>, shown |-> << >>]

\* The usage figures of a stats argument (everything but id, model, timestamp).
Figures(stats) ==
    [tokensIn |-> stats.tokensIn, tokensOut |-> stats.tokensOut, cost |-> stats.cost,
     cacheWrites |-> stats.cacheWrites, cacheReads |-> stats.cacheReads,
     total_cost |-> stats.total_cost, tokens_prompt |-> stats.tokens_prompt,
     tokens_completion |-> stats.tokens_completion]

Weight(u) == u.tokensIn + u.tokensOut + u.cost + u.cacheWrites + u.cacheReads

(* -------------------------- ModelTracker ------------------------------- *)

\* new ModelTracker() with no initial changes.
Init ==
    /\ changes = << >>
    /\ taskTotals = ZeroUsage
    /\ processedRequests = { }
    /\ last = [op |-> "new", branch |-> "new", idx |-> 0, figures |-> Figures(EmptyStats)]
    /\ messages = << >>
    /\ reads = << >>
    /\ twin = << >>
    /\ apiReqs = << >>
    /\ delivered = [ids |-> { }, sum |-> ZeroUsage]
    /\ historyChanges = << >>
    /\ webview = EmptyWebview

RECURSIVE CalculateTaskTotals(_)
\* calculateTaskTotals: the reduce over the changes, from the left.
CalculateTaskTotals(chs) ==
    IF chs = << >> THEN ZeroUsage
    ELSE LET totals == CalculateTaskTotals(SubSeq(chs, 1, Len(chs) - 1))
             change == chs[Len(chs)]
         IN  [tokensIn    |-> totals.tokensIn + change.usage.tokensIn,
              tokensOut   |-> totals.tokensOut + change.usage.tokensOut,
              cost        |-> totals.cost + change.usage.cost,
              cacheWrites |-> totals.cacheWrites + change.usage.cacheWrites,
              cacheReads  |-> totals.cacheReads + change.usage.cacheReads]

\* new ModelTracker(initialChanges): the changes are taken over and the task
\* totals are calculated from them.
InitLoaded ==
    \E initialChanges \in PersistedTimelines :
        /\ changes = initialChanges
        /\ taskTotals = CalculateTaskTotals(initialChanges)
        /\ processedRequests = { }
        /\ last = [op |-> "new", branch |-> "loaded", idx |-> 0,
                   figures |-> Figures(EmptyStats)]
        /\ messages = << >>
        /\ reads = << >>
        /\ twin = << >>
        /\ apiReqs = << >>
        /\ delivered = [ids |-> { }, sum |-> ZeroUsage]
        /\ historyChanges = << >>
        /\ webview = EmptyWebview

\* !change.endTs
EndTsFalsy(change) == ~ TruthyNum(change.endTs)

\* Mutant of ChangesAfterAddChange: the last period's endTs is set whether or
\* not it already has one.
ChangesAfterAddChangeAlwaysClosing(chs, modelId, modelProvider, timestamp) ==
    LET closed ==
            IF Len(chs) > 0
            THEN [chs EXCEPT ![Len(chs)].endTs = Some(timestamp)]
            ELSE chs
        newChange ==
            [modelId |-> modelId, modelProvider |-> modelProvider,
             startTs |-> timestamp, endTs |-> None, usage |-> ZeroUsage]
    IN  Append(closed, newChange)

\* Mutant of ChangesAfterAddChange: the last period is never closed.
ChangesAfterAddChangeNotClosing(chs, modelId, modelProvider, timestamp) ==
    Append(chs, [modelId |-> modelId, modelProvider |-> modelProvider,
                 startTs |-> timestamp, endTs |-> None, usage |-> ZeroUsage])

\* Mutant of ChangesAfterAddChange: closing a period clears its usage.
ChangesAfterAddChangeResettingUsage(chs, modelId, modelProvider, timestamp) ==
    LET closed ==
            IF Len(chs) > 0 /\ EndTsFalsy(chs[Len(chs)])
            THEN [chs EXCEPT ![Len(chs)].endTs = Some(timestamp),
                             ![Len(chs)].usage = ZeroUsage]
            ELSE chs
        newChange ==
            [modelId |-> modelId, modelProvider |-> modelProvider,
             startTs |-> timestamp, endTs |-> None, usage |-> ZeroUsage]
    IN  Append(closed, newChange)

\* Mutant of ChangesAfterAddChange: the new period is put in front of the
\* timeline instead of at its end.
ChangesAfterAddChangePrepending(chs, modelId, modelProvider, timestamp) ==
    LET closed ==
            IF Len(chs) > 0 /\ EndTsFalsy(chs[Len(chs)])
            THEN [chs EXCEPT ![Len(chs)].endTs = Some(timestamp)]
            ELSE chs
        newChange ==
            [modelId |-> modelId, modelProvider |-> modelProvider,
             startTs |-> timestamp, endTs |-> None, usage |-> ZeroUsage]
    IN  << newChange >> \o closed

\* addChange: the timeline after closing the last period (if it is open) and
\* appending the new one.
ChangesAfterAddChange(chs, modelId, modelProvider, timestamp) ==
    LET closed ==
            IF Len(chs) > 0 /\ EndTsFalsy(chs[Len(chs)])
            THEN [chs EXCEPT ![Len(chs)].endTs = Some(timestamp)]
            ELSE chs
        newChange ==
            [modelId |-> modelId, modelProvider |-> modelProvider,
             startTs |-> timestamp, endTs |-> None, usage |-> ZeroUsage]
    IN  Append(closed, newChange)

AddChange(modelId, modelProvider, timestamp) ==
    /\ Len(changes) < MaxChanges
    /\ changes' = ChangesAfterAddChange(changes, modelId, modelProvider, timestamp)
    /\ last' = [op |-> "addChange", branch |-> "push", idx |-> Len(changes) + 1,
                figures |-> Figures(EmptyStats)]
    /\ UNCHANGED << taskTotals, processedRequests, messages, reads, twin, apiReqs,
                    delivered >>

\* const requestStartTime = stats.timestamp || timestamp
RequestStartTime(timestamp, stats) ==
    IF TruthyNum(stats.timestamp) THEN stats.timestamp[1] ELSE timestamp

\* Mutant of BelongsToThisPeriod: the end of the period is not looked at.
BelongsIgnoringEnd(change, requestStartTime) ==
    change.startTs <= requestStartTime

\* The predicate of the find() in updateUsageStats.
BelongsToThisPeriod(change, requestStartTime) ==
    /\ change.startTs <= requestStartTime
    /\ (EndTsFalsy(change) \/ change.endTs[1] > requestStartTime)

MatchesRequest(change, requestStartTime, stats) ==
    IF TruthyStr(stats.model)
    THEN BelongsToThisPeriod(change, requestStartTime)
            /\ EndsWith(ModelKey(change), stats.model[1])
    ELSE BelongsToThisPeriod(change, requestStartTime)

\* Index of modelForRequest in changes, 0 when find() returns undefined.
ModelForRequest(chs, requestStartTime, stats) ==
    LET hits == { i \in 1 .. Len(chs) : MatchesRequest(chs[i], requestStartTime, stats) }
    IN  IF hits = { } THEN 0 ELSE CHOOSE i \in hits : \A j \in hits : i <= j

\* 'total_cost' in stats && 'model' in stats
IsFinalStats(stats) == stats.total_cost # None /\ stats.model # None

\* Mutant of UsageAfterFinal: the final token counts and cost replace the
\* period's figures instead of being added to them.
UsageSetFromFinal(usage, stats) ==
    [tokensIn    |-> OrZero(stats.tokens_prompt),
     tokensOut   |-> OrZero(stats.tokens_completion),
     cost        |-> OrZero(stats.total_cost),
     cacheWrites |-> usage.cacheWrites + OrZero(stats.cacheWrites),
     cacheReads  |-> usage.cacheReads + OrZero(stats.cacheReads)]

\* Mutant of UsageAfterFinal: the cache counters of the report replace the
\* period's counters instead of being added to them.
UsageCacheSetFromFinal(usage, stats) ==
    [tokensIn    |-> usage.tokensIn + OrZero(stats.tokens_prompt),
     tokensOut   |-> usage.tokensOut + OrZero(stats.tokens_completion),
     cost        |-> usage.cost + OrZero(stats.total_cost),
     cacheWrites |-> OrZero(stats.cacheWrites),
     cacheReads  |-> OrZero(stats.cacheReads)]

\* Period usage after the final (OpenRouter) branch.
UsageAfterFinal(usage, stats) ==
    [tokensIn    |-> usage.tokensIn + OrZero(stats.tokens_prompt),
     tokensOut   |-> usage.tokensOut + OrZero(stats.tokens_completion),
     cost        |-> usage.cost + OrZero(stats.total_cost),
     cacheWrites |-> usage.cacheWrites + OrZero(stats.cacheWrites),
     cacheReads  |-> usage.cacheReads + OrZero(stats.cacheReads)]

\* Mutant of TotalsAfterFinal: the final cost is not added to the totals.
TotalsAfterFinalWithoutCost(totals, stats) ==
    [tokensIn    |-> totals.tokensIn + OrZero(stats.tokens_prompt),
     tokensOut   |-> totals.tokensOut + OrZero(stats.tokens_completion),
     cost        |-> totals.cost,
     cacheWrites |-> totals.cacheWrites + OrZero(stats.cacheWrites),
     cacheReads  |-> totals.cacheReads + OrZero(stats.cacheReads)]

\* Task totals after the final (OpenRouter) branch.
TotalsAfterFinal(totals, stats) ==
    [tokensIn    |-> totals.tokensIn + OrZero(stats.tokens_prompt),
     tokensOut   |-> totals.tokensOut + OrZero(stats.tokens_completion),
     cost        |-> totals.cost + OrZero(stats.total_cost),
     cacheWrites |-> IF stats.cacheWrites # None
                     THEN totals.cacheWrites + stats.cacheWrites[1]
                     ELSE totals.cacheWrites,
     cacheReads  |-> IF stats.cacheReads # None
                     THEN totals.cacheReads + stats.cacheReads[1]
                     ELSE totals.cacheReads]

\* Mutant of UsageAfterRegular: the cost of the report is taken off the
\* period's cost.
UsageAfterRegularRefunding(usage, stats) ==
    [tokensIn    |-> usage.tokensIn + OrZero(stats.tokensIn),
     tokensOut   |-> usage.tokensOut + OrZero(stats.tokensOut),
     cost        |-> usage.cost - OrZero(stats.cost),
     cacheWrites |-> usage.cacheWrites + OrZero(stats.cacheWrites),
     cacheReads  |-> usage.cacheReads + OrZero(stats.cacheReads)]

\* Period usage after the regular-stats branch.
UsageAfterRegular(usage, stats) ==
    [tokensIn    |-> usage.tokensIn + OrZero(stats.tokensIn),
     tokensOut   |-> usage.tokensOut + OrZero(stats.tokensOut),
     cost        |-> usage.cost + OrZero(stats.cost),
     cacheWrites |-> usage.cacheWrites + OrZero(stats.cacheWrites),
     cacheReads  |-> usage.cacheReads + OrZero(stats.cacheReads)]

\* Task totals after the regular-stats branch.
TotalsAfterRegular(totals, stats) ==
    [tokensIn    |-> totals.tokensIn + OrZero(stats.tokensIn),
     tokensOut   |-> totals.tokensOut + OrZero(stats.tokensOut),
     cost        |-> totals.cost + OrZero(stats.cost),
     cacheWrites |-> IF stats.cacheWrites # None
                     THEN totals.cacheWrites + stats.cacheWrites[1]
                     ELSE totals.cacheWrites,
     cacheReads  |-> IF stats.cacheReads # None
                     THEN totals.cacheReads + stats.cacheReads[1]
                     ELSE totals.cacheReads]

\* Mutant of AlreadyProcessed: the request id is never looked up.
NeverProcessed(processed, stats) == FALSE

\* if (stats.id && this.processedRequests.has(stats.id)) return
AlreadyProcessed(processed, stats) ==
    TruthyId(stats.id) /\ stats.id[1] \in processed

\* Mutant of ProcessedAfter: the request id is not remembered.
ProcessedAfterForgetting(processed, stats) == processed

\* Mutant of ProcessedAfter: the request id is remembered only if some period
\* of the timeline fits the model label of the report.
ProcessedAfterIfPeriodFits(processed, stats) ==
    IF /\ TruthyId(stats.id)
       /\ stats.model # None
       /\ \E i \in 1 .. Len(changes) : EndsWith(ModelKey(changes[i]), stats.model[1])
    THEN processed \cup { stats.id[1] }
    ELSE processed

\* Mutant of ProcessedAfter: only the id of the latest request is remembered.
ProcessedAfterOnlyLatest(processed, stats) ==
    IF TruthyId(stats.id) THEN { stats.id[1] } ELSE processed

\* if (stats.id) this.processedRequests.add(stats.id)
ProcessedAfter(processed, stats) ==
    IF TruthyId(stats.id) THEN processed \cup { stats.id[1] } ELSE processed

\* The path updateUsageStats takes: the early return, no owning period, or one
\* of the two merge branches.
Branch(chs, processed, timestamp, stats) ==
    IF AlreadyProcessed(processed, stats) THEN "duplicate"
    ELSE IF ModelForRequest(chs, RequestStartTime(timestamp, stats), stats) = 0 THEN "none"
    ELSE IF IsFinalStats(stats) THEN "final"
    ELSE "regular"

UpdateUsageStats(timestamp, stats) ==
    /\ IF AlreadyProcessed(processedRequests, stats)
       THEN /\ last' = [op |-> "updateUsageStats", branch |-> "duplicate", idx |-> 0,
                        figures |-> Figures(stats)]
            /\ UNCHANGED << changes, taskTotals, processedRequests >>
       ELSE LET i == ModelForRequest(changes, RequestStartTime(timestamp, stats), stats)
            IN  /\ processedRequests' = ProcessedAfter(processedRequests, stats)
                /\ last' = [op |-> "updateUsageStats",
                            branch |-> Branch(changes, processedRequests, timestamp, stats),
                            idx |-> i, figures |-> Figures(stats)]
                /\ IF i = 0
                   THEN UNCHANGED << changes, taskTotals >>
                   ELSE IF IsFinalStats(stats)
                   THEN /\ taskTotals' = TotalsAfterFinal(taskTotals, stats)
                        /\ changes' = [changes EXCEPT
                                         ![i].usage = UsageAfterFinal(@, stats)]
                   ELSE /\ taskTotals' = TotalsAfterRegular(taskTotals, stats)
                        /\ changes' = [changes EXCEPT
                                         ![i].usage = UsageAfterRegular(@, stats)]
    /\ Weight(taskTotals') <= MaxTotal
    /\ UNCHANGED << messages, reads, twin, apiReqs >>

\* Mutant of IsActiveAt: the end of a period is taken as inclusive.
IsActiveAtInclusiveEnd(change, timestamp) ==
    /\ change.startTs <= timestamp
    /\ (~ TruthyNum(change.endTs) \/ change.endTs[1] >= timestamp)

\* The predicate of the find() in getModelForTimestamp.
IsActiveAt(change, timestamp) ==
    /\ change.startTs <= timestamp
    /\ (EndTsFalsy(change) \/ change.endTs[1] > timestamp)

\* Index of activeChange in changes, 0 when find() returns undefined.
ActiveChange(chs, timestamp) ==
    LET hits == { i \in 1 .. Len(chs) : IsActiveAt(chs[i], timestamp) }
    IN  IF hits = { } THEN 0 ELSE CHOOSE i \in hits : \A j \in hits : i <= j

\* getModelForTimestamp: the identity of the active change, or undefined.
GetModelForTimestamp(chs, timestamp) ==
    LET i == ActiveChange(chs, timestamp)
    IN  IF i = 0 THEN None
        ELSE Some([modelId |-> chs[i].modelId, modelProvider |-> chs[i].modelProvider])

\* Mutant of GetCurrentModel: the last change is returned whether or not it
\* has an endTs.
GetCurrentModelIgnoringEnd(chs) ==
    IF Len(chs) = 0 THEN None
    ELSE Some([modelId |-> chs[Len(chs)].modelId,
               modelProvider |-> chs[Len(chs)].modelProvider])

\* getCurrentModel: the identity of the last change if it has no (truthy)
\* endTs, else undefined.
GetCurrentModel(chs) ==
    IF Len(chs) > 0 /\ EndTsFalsy(chs[Len(chs)])
    THEN Some([modelId |-> chs[Len(chs)].modelId,
               modelProvider |-> chs[Len(chs)].modelProvider])
    ELSE None

\* getTaskTotals: a copy of taskTotals.
GetTaskTotals == taskTotals

\* getModelStats: for each key `${modelProvider}/${modelId}` the usage that the
\* loop assigned last, i.e. the usage of the last change with that key.
GetModelStats(chs) ==
    LET keys == { ModelKey(chs[i]) : i \in 1 .. Len(chs) }
        lastWith(k) == CHOOSE i \in 1 .. Len(chs) :
                          /\ ModelKey(chs[i]) = k
                          /\ \A j \in 1 .. Len(chs) : ModelKey(chs[j]) = k => j <= i
    IN  [k \in keys |-> chs[lastWith(k)].usage]

\* getAllChanges: a new array holding the change objects of this.changes
\* themselves.  A change object is referred to by its position in changes
\* (addChange only pushes, so positions never move).
GetAllChanges(chs) == [i \in 1 .. Len(chs) |-> i]

\* What a caller finds in an array returned by getAllChanges when it looks
\* into it now: the present fields of the change objects it holds.
Deref(refs) == [k \in DOMAIN refs |-> changes[refs[k]]]

\* A caller calls getTaskTotals, getModelStats and getAllChanges and keeps what
\* they return; seen is what the array returned by getAllChanges showed then.
ReadAll ==
    /\ reads = None
    /\ reads' = Some([totals   |-> GetTaskTotals,
                      perModel |-> GetModelStats(changes),
                      all      |-> GetAllChanges(changes),
                      seen     |-> Deref(GetAllChanges(changes))])
    /\ last' = [op |-> "read", branch |-> "read", idx |-> 0,
                figures |-> Figures(EmptyStats)]
    /\ UNCHANGED << changes, taskTotals, processedRequests, messages, twin, apiReqs,
                    delivered, historyChanges, webview >>

\* Mutant of NewModelTracker: the task totals are not calculated from the
\* initial changes.
NewModelTrackerZeroTotals(initialChanges) ==
    [changes |-> initialChanges,
     taskTotals |-> ZeroUsage,
     processedRequests |-> { }]

\* new ModelTracker(initialChanges) as a value: this.changes is a new array
\* with the elements of initialChanges, the totals are calculated from them
\* and nothing has been processed.
NewModelTracker(initialChanges) ==
    [changes |-> initialChanges,
     taskTotals |-> CalculateTaskTotals(initialChanges),
     processedRequests |-> { }]

\* Two trackers constructed from one initialChanges array.  [...initialChanges]
\* copies the array and not its elements, so the second tracker holds the very
\* change objects of the first: it refers to them by their position in changes
\* and keeps task totals of its own; built is what it was constructed from.
InitTwins ==
    \E initialChanges \in PersistedTimelines :
        /\ changes = NewModelTracker(initialChanges).changes
        /\ taskTotals = NewModelTracker(initialChanges).taskTotals
        /\ processedRequests = NewModelTracker(initialChanges).processedRequests
        /\ last = [op |-> "new", branch |-> "loaded", idx |-> 0,
                   figures |-> Figures(EmptyStats)]
        /\ messages = << >>
        /\ reads = << >>
        /\ twin = Some([changes    |-> GetAllChanges(initialChanges),
                        taskTotals |-> NewModelTracker(initialChanges).taskTotals,
                        built      |-> initialChanges])
        /\ apiReqs = << >>
        /\ delivered = [ids |-> { }, sum |-> ZeroUsage]
        /\ historyChanges = << >>
        /\ webview = EmptyWebview

(* --------------------------- getModelTracker --------------------------- *)

RECURSIVE PushNewChanges(_, _)
\* parsedData.modelChanges.forEach: a change is pushed onto allModelChanges
\* unless a change with the same modelId, modelProvider and startTs is
\* already there.
PushNewChanges(allModelChanges, modelChanges) ==
    IF modelChanges = << >> THEN allModelChanges
    ELSE LET change == Head(modelChanges)
             exists == \E k \in 1 .. Len(allModelChanges) :
                          /\ allModelChanges[k].modelId = change.modelId
                          /\ allModelChanges[k].modelProvider = change.modelProvider
                          /\ allModelChanges[k].startTs = change.startTs
         IN  PushNewChanges(IF exists THEN allModelChanges
                            ELSE Append(allModelChanges, change),
                            Tail(modelChanges))

RECURSIVE AllModelChanges(_)
\* The loop over the messages, oldest first; reqs holds the modelChanges of
\* the api_req_started messages that carry some.
AllModelChanges(reqs) ==
    IF reqs = << >> THEN << >>
    ELSE PushNewChanges(AllModelChanges(SubSeq(reqs, 1, Len(reqs) - 1)), reqs[Len(reqs)])

\* getModelTracker: a tracker constructed from the accumulated changes.
GetModelTracker(reqs) == NewModelTracker(AllModelChanges(reqs))

\* An api_req_started message is stored whose text carries the timeline as it
\* is now (the text is JSON, so the periods are carried by value).
SaveApiReqStarted ==
    /\ Len(apiReqs) < MaxApiReqs
    /\ apiReqs' = Append(apiReqs, Deref(GetAllChanges(changes)))
    /\ last' = [op |-> "apiReqStarted", branch |-> "push", idx |-> 0,
                figures |-> Figures(EmptyStats)]
    /\ UNCHANGED << changes, taskTotals, processedRequests, messages, reads, twin,
                    delivered, historyChanges, webview >>

(* ------------------ ModelTracker of HistoryItem.ts --------------------- *)

\* addChange of the HistoryItem.ts revision: the pushed change has no usage.
HistoryAddChange(chs, modelId, modelProvider, timestamp) ==
    LET closed ==
            IF Len(chs) > 0 /\ ~ TruthyNum(chs[Len(chs)].endTs)
            THEN [chs EXCEPT ![Len(chs)].endTs = Some(timestamp)]
            ELSE chs
    IN  Append(closed, [modelId |-> modelId, modelProvider |-> modelProvider,
                        startTs |-> timestamp, endTs |-> None, usage |-> None])

\* The usage of activeChange after the body of updateUsageStats: an absent
\* usage is initialised without cache counters, and a cache counter is written
\* only for a truthy amount.
HistoryUsageAfter(usage, stats) ==
    LET old == IF usage = None
               THEN [tokensIn |-> 0, tokensOut |-> 0, cost |-> 0,
                     cacheWrites |-> None, cacheReads |-> None]
               ELSE usage[1]
    IN  Some([tokensIn    |-> old.tokensIn + OrZero(stats.tokensIn),
              tokensOut   |-> old.tokensOut + OrZero(stats.tokensOut),
              cost        |-> old.cost + OrZero(stats.cost),
              cacheWrites |-> IF TruthyNum(stats.cacheWrites)
                              THEN Some(OrZero(old.cacheWrites) + stats.cacheWrites[1])
                              ELSE old.cacheWrites,
              cacheReads  |-> IF TruthyNum(stats.cacheReads)
                              THEN Some(OrZero(old.cacheReads) + stats.cacheReads[1])
                              ELSE old.cacheReads])

\* Mutant of HistoryUpdateUsageStats: the stats go to the change that was
\* active at the timestamp.
HistoryUpdateUsageStatsAtTimestamp(chs, timestamp, stats) ==
    LET i == ActiveChange(chs, timestamp)
    IN  IF i = 0 THEN chs ELSE [chs EXCEPT ![i].usage = HistoryUsageAfter(@, stats)]

\* Mutant of HistoryUpdateUsageStats: the stats go to the first change.
HistoryUpdateUsageStatsIntoFirst(chs, timestamp, stats) ==
    IF Len(chs) = 0 THEN chs
    ELSE [chs EXCEPT ![1].usage = HistoryUsageAfter(@, stats)]

\* updateUsageStats of the HistoryItem.ts revision: activeChange is the last
\* element of changes, whatever the timestamp.
HistoryUpdateUsageStats(chs, timestamp, stats) ==
    IF Len(chs) = 0 THEN chs
    ELSE [chs EXCEPT ![Len(chs)].usage = HistoryUsageAfter(@, stats)]

\* getAllChanges of the HistoryItem.ts revision.
HistoryGetAllChanges(chs) == chs

(* ------------------------- ConversationState --------------------------- *)

\* recordModelChange delegates to ModelTracker.addChange.
RecordModelChange(modelId, modelProvider, timestamp) ==
    AddChange(modelId, modelProvider, timestamp)

\* updateModelStats: an OpenRouter envelope { data: ... } is unwrapped, regular
\* stats are passed on as they are.
UpdateModelStats(timestamp, stats) ==
    /\ IF "data" \in DOMAIN stats
       THEN UpdateUsageStats(timestamp, stats.data)
       ELSE UpdateUsageStats(timestamp, stats)
    /\ UNCHANGED << delivered, historyChanges, webview >>

\* Mutant of GetModelForMessage: a timestamp that no change is active at gets
\* the current model.
GetModelForMessageOrCurrent(timestamp) ==
    IF GetModelForTimestamp(changes, timestamp) = None
    THEN GetCurrentModel(changes)
    ELSE GetModelForTimestamp(changes, timestamp)

\* getModelForMessage delegates to ModelTracker.getModelForTimestamp.
GetModelForMessage(timestamp) == GetModelForTimestamp(changes, timestamp)

\* addMessage: the message gets the identity of the model found for its ts (if
\* one is found) and is pushed onto messages.
AddMessage(ts) ==
    /\ Len(messages) < MaxMessages
    /\ messages' = Append(messages, [ts |-> ts, model |-> GetModelForMessage(ts)])
    /\ last' = [op |-> "addMessage", branch |-> "push", idx |-> ActiveChange(changes, ts),
                figures |-> Figures(EmptyStats)]
    /\ UNCHANGED << changes, taskTotals, processedRequests, reads, twin, apiReqs,
                    delivered, historyChanges, webview >>

\* Arguments of updateModelStats: regular stats and an OpenRouter envelope.
ConversationStats ==
    { s \in ImmediateReports : s # EmptyStats } \cup { [data |-> CompletePayload] }

(* ------------- StaticModelIdentifier (history/chat view) --------------- *)

UnknownModel == << "Unknown Model" >>

\* The template string `${modelProvider} ${modelId}`.
DisplayName(modelProvider, modelId) == modelProvider \o << " " >> \o modelId

\* The modelProvider and modelId props: absent, empty, or a name.
ProviderProps == { None, Some(<< >>), Some(<< "o" >>) }

ModelIdProps == { None, Some(<< >>), Some(<< "g" >>) }

\* currentTask of the extension state: undefined, or a task whose historyItem
\* has or lacks modelChanges and a nominal modelProvider / modelId.
CurrentTasks ==
    { None } \cup
    { Some([modelChanges |-> mc, modelProvider |-> mp, modelId |-> mi]) :
        mc \in { None } \cup { Some(tl) : tl \in PersistedTimelines },
        mp \in { None, Some(<< "a" >>) },
        mi \in { None, Some(<< >>), Some(<< "c" >>) } }

\* Mutant of StaticModelName: the task's nominal model is tried before the
\* model changes.
StaticModelNameNominalFirst(timestamp, modelProvider, modelId, currentTask) ==
    IF TruthyStr(modelProvider) /\ TruthyStr(modelId)
    THEN DisplayName(modelProvider[1], modelId[1])
    ELSE IF /\ currentTask # None
            /\ TruthyStr(currentTask[1].modelProvider)
            /\ TruthyStr(currentTask[1].modelId)
    THEN DisplayName(currentTask[1].modelProvider[1], currentTask[1].modelId[1])
    ELSE LET model ==
                 IF /\ currentTask # None
                    /\ currentTask[1].modelChanges # None
                    /\ Len(currentTask[1].modelChanges[1]) > 0
                 THEN GetModelForTimestamp(
                          NewModelTracker(currentTask[1].modelChanges[1]).changes, timestamp)
                 ELSE None
         IN  IF model # None
             THEN DisplayName(model[1].modelProvider, model[1].modelId)
             ELSE UnknownModel

\* The modelName computed by StaticModelIdentifier.
StaticModelName(timestamp, modelProvider, modelId, currentTask) ==
    IF TruthyStr(modelProvider) /\ TruthyStr(modelId)
    THEN DisplayName(modelProvider[1], modelId[1])
    ELSE LET model ==
                 IF /\ currentTask # None
                    /\ currentTask[1].modelChanges # None
                    /\ Len(currentTask[1].modelChanges[1]) > 0
                 THEN GetModelForTimestamp(
                          NewModelTracker(currentTask[1].modelChanges[1]).changes, timestamp)
                 ELSE None
         IN  IF model # None
             THEN DisplayName(model[1].modelProvider, model[1].modelId)
             ELSE IF /\ currentTask # None
                     /\ TruthyStr(currentTask[1].modelProvider)
                     /\ TruthyStr(currentTask[1].modelId)
             THEN DisplayName(currentTask[1].modelProvider[1], currentTask[1].modelId[1])
             ELSE UnknownModel

\* The component is rendered with some props in some extension state.
RenderStatic ==
    \E timestamp \in Timestamps, modelProvider \in ProviderProps,
       modelId \in ModelIdProps, currentTask \in CurrentTasks :
        /\ webview' = [webview EXCEPT
                         !.props = Some([timestamp |-> timestamp,
                                         modelProvider |-> modelProvider,
                                         modelId |-> modelId,
                                         currentTask |-> currentTask]),
                         !.shown = Some(StaticModelName(timestamp, modelProvider,
                                                        modelId, currentTask))]
        /\ last' = [op |-> "render", branch |-> "render", idx |-> 0,
                    figures |-> Figures(EmptyStats)]
        /\ UNCHANGED << changes, taskTotals, processedRequests, messages, reads, twin,
                        apiReqs, delivered, historyChanges >>

(* -------------------------- ModelNameProvider -------------------------- *)

\* The names StaticModelIdentifier stores: `${selectedProvider}/${selectedModelId}`
\* for the selected models of Models.
ModelNames == { ModelKey(m) : m \in Models }

\* Mutant of StoreModelName: the name is stored whatever is there.
StoreModelNameOverwriting(ref, timestamp, modelName) ==
    [ts \in DOMAIN ref \cup { timestamp } |->
        IF ts = timestamp THEN modelName ELSE ref[ts]]

\* storeModelName: modelNameRef.current after the call.  The name is written
\* if modelNameRef.current[timestamp] is falsy: no such key, or an empty name.
StoreModelName(ref, timestamp, modelName) ==
    IF timestamp \notin DOMAIN ref \/ ref[timestamp] = << >>
    THEN [ts \in DOMAIN ref \cup { timestamp } |->
             IF ts = timestamp THEN modelName ELSE ref[ts]]
    ELSE ref

\* Mutant of GetModelName: the keys are sorted in ascending order.
GetModelNameOldest(ref, timestamp) ==
    LET keys == { ts \in DOMAIN ref : ts <= timestamp }
    IN  IF keys = { } THEN UnknownModel
        ELSE LET prevTimestamp == CHOOSE a \in keys : \A b \in keys : a <= b
             IN  IF ref[prevTimestamp] # << >> THEN ref[prevTimestamp] ELSE UnknownModel

\* getModelName: the keys <= timestamp sorted in descending order, the first
\* of them looked up, 'Unknown Model' for undefined or an empty name.
GetModelName(ref, timestamp) ==
    LET keys == { ts \in DOMAIN ref : ts <= timestamp }
    IN  IF keys = { } THEN UnknownModel
        ELSE LET prevTimestamp == CHOOSE a \in keys : \A b \in keys : b <= a
             IN  IF ref[prevTimestamp] # << >> THEN ref[prevTimestamp] ELSE UnknownModel

\* The effect of StaticModelIdentifier (chat view): the name of the selected
\* model is stored under the timestamp of the message.
StoreName ==
    \E timestamp \in Timestamps, modelName \in ModelNames :
        /\ webview' = [webview EXCEPT
                         !.modelNameRef = StoreModelName(@, timestamp, modelName),
                         !.props = Some([timestamp |-> timestamp,
                                         modelName |-> modelName]),
                         !.shown = None]
        /\ last' = [op |-> "storeModelName", branch |-> "store", idx |-> 0,
                    figures |-> Figures(EmptyStats)]
        /\ UNCHANGED << changes, taskTotals, processedRequests, messages, reads, twin,
                        apiReqs, delivered, historyChanges >>

\* The memo of StaticModelIdentifier (chat view) asks for the name stored for
\* the timestamp of the message.
LookupName ==
    \E timestamp \in Timestamps :
        /\ webview' = [webview EXCEPT
                         !.props = Some([timestamp |-> timestamp]),
                         !.shown = Some(GetModelName(webview.modelNameRef, timestamp))]
        /\ last' = [op |-> "getModelName", branch |-> "get", idx |-> 0,
                    figures |-> Figures(EmptyStats)]
        /\ UNCHANGED << changes, taskTotals, processedRequests, messages, reads, twin,
                        apiReqs, delivered, historyChanges >>

(* ------------------------- ModelUsageBreakdown ------------------------- *)

\* Models whose modelProvider or modelId contains "/" or "-".
SeparatorModels ==
    { [modelProvider |-> << "a", "/", "b" >>, modelId |-> << "c" >>],
      [modelProvider |-> << "a" >>, modelId |-> << "b", "/", "c" >>],
      [modelProvider |-> << "a", "-", "b" >>, modelId |-> << "c" >>],
      [modelProvider |-> << "a" >>, modelId |-> << "b", "-", "c" >>] }

\* The template string `${change.modelProvider}-${change.modelId}`.
UsageKey(change) == change.modelProvider \o << "-" >> \o change.modelId

RECURSIVE ModelUsageMap(_)
\* The accumulator of the reduce in calculateModelUsage after the changes of
\* chs, as the list of its entries in insertion order, each with its key.
ModelUsageMap(chs) ==
    IF Len(chs) = 0 THEN << >>
    ELSE LET acc == ModelUsageMap(SubSeq(chs, 1, Len(chs) - 1))
             change == chs[Len(chs)]
             modelKey == UsageKey(change)
             hits == { k \in 1 .. Len(acc) : acc[k].modelKey = modelKey }
             plus(u) ==
                 [cost        |-> u.cost + change.usage.cost,
                  tokensIn    |-> u.tokensIn + change.usage.tokensIn,
                  tokensOut   |-> u.tokensOut + change.usage.tokensOut,
                  cacheWrites |-> u.cacheWrites + change.usage.cacheWrites,
                  cacheReads  |-> u.cacheReads + change.usage.cacheReads]
         IN  IF hits = { }
             THEN Append(acc, [modelKey |-> modelKey,
                               modelProvider |-> change.modelProvider,
                               modelId |-> change.modelId,
                               usage |-> plus(ZeroUsage)])
             ELSE LET k == CHOOSE x \in hits : TRUE
                  IN  [acc EXCEPT ![k].usage = plus(@)]

\* calculateModelUsage: Object.values of the accumulator.
CalculateModelUsage(chs) ==
    [k \in 1 .. Len(ModelUsageMap(chs)) |->
        [modelProvider |-> ModelUsageMap(chs)[k].modelProvider,
         modelId |-> ModelUsageMap(chs)[k].modelId,
         usage |-> ModelUsageMap(chs)[k].usage]]

\* ModelUsageBreakdown is rendered with the changes of the tracker.
RenderBreakdown ==
    /\ webview' = [webview EXCEPT
                     !.props = Some([modelChanges |-> Deref(GetAllChanges(changes))]),
                     !.shown = Some(CalculateModelUsage(Deref(GetAllChanges(changes))))]
    /\ last' = [op |-> "calculateModelUsage", branch |-> "render", idx |-> 0,
                figures |-> Figures(EmptyStats)]
    /\ UNCHANGED << changes, taskTotals, processedRequests, messages, reads, twin,
                    apiReqs, delivered, historyChanges >>

(* --------------------------- specifications ---------------------------- *)

Switch ==
    \E m \in Models, t \in Timestamps :
        AddChange(m.modelId, m.modelProvider, t) /\ UNCHANGED << historyChanges, webview >>

ApplyReport ==
    \E t \in Timestamps, s \in Reports :
        UpdateUsageStats(t, s) /\ UNCHANGED << delivered, historyChanges, webview >>

ApplyImmediate ==
    \E t \in Timestamps, s \in ImmediateReports :
        UpdateUsageStats(t, s) /\ UNCHANGED << delivered, historyChanges, webview >>

Next == Switch \/ ApplyReport

Spec == Init /\ [][Next]_vars

\* Only model switches and immediate reports.
NextImmediate == Switch \/ ApplyImmediate

SpecImmediate == Init /\ [][NextImmediate]_vars

\* A tracker constructed from persisted periods.
SpecLoaded == InitLoaded /\ [][Next]_vars

\* A tracker whose caller reads it once and goes on using it.
NextReads == Switch \/ ApplyReport \/ ReadAll

SpecReads == Init /\ [][NextReads]_vars

\* Two trackers constructed from the same persisted periods; the calls go to
\* the first.
SpecTwins == InitTwins /\ [][Next]_vars

\* A task whose api_req_started messages carry snapshots of its timeline.
NextHistory == Switch \/ ApplyImmediate \/ SaveApiReqStarted

SpecHistory == Init /\ [][NextHistory]_vars

ApplyMalformed ==
    \E t \in Timestamps, s \in MalformedReports :
        UpdateUsageStats(t, s) /\ UNCHANGED << delivered, historyChanges, webview >>

\* Model switches, immediate reports and incomplete OpenRouter payloads.
NextMalformed == Switch \/ ApplyImmediate \/ ApplyMalformed

SpecMalformed == Init /\ [][NextMalformed]_vars

RecordChange ==
    \E m \in Models, t \in Timestamps :
        RecordModelChange(m.modelId, m.modelProvider, t) /\ UNCHANGED << historyChanges, webview >>

UpdateStats == \E t \in Timestamps, s \in ConversationStats : UpdateModelStats(t, s)

Bind == \E ts \in Timestamps : AddMessage(ts)

\* A ConversationState driven through its own methods.
NextConversation == RecordChange \/ UpdateStats \/ Bind

SpecConversation == Init /\ [][NextConversation]_vars

\* What a report carries for each of the five usage components.
ReportUsage(s) ==
    IF IsFinalStats(s)
    THEN [tokensIn |-> OrZero(s.tokens_prompt), tokensOut |-> OrZero(s.tokens_completion),
          cost |-> OrZero(s.total_cost),
          cacheWrites |-> OrZero(s.cacheWrites), cacheReads |-> OrZero(s.cacheReads)]
    ELSE [tokensIn |-> OrZero(s.tokensIn), tokensOut |-> OrZero(s.tokensOut),
          cost |-> OrZero(s.cost),
          cacheWrites |-> OrZero(s.cacheWrites), cacheReads |-> OrZero(s.cacheReads)]

\* The account of the reports handed over: a report whose request id was
\* handed over before is the same report again, any other one is new.
DeliveredAfter(d, s) ==
    IF s.id # None /\ s.id[1] \in d.ids
    THEN d
    ELSE [ids |-> IF s.id # None THEN d.ids \cup { s.id[1] } ELSE d.ids,
          sum |-> [c \in DOMAIN d.sum |-> d.sum[c] + ReportUsage(s)[c]]]

Deliver ==
    \E t \in Timestamps, s \in RedeliveredReports :
        /\ UpdateUsageStats(t, s)
        /\ delivered' = DeliveredAfter(delivered, s)
        /\ Weight(delivered'.sum) <= MaxDelivered
        /\ UNCHANGED << historyChanges, webview >>

\* A tracker fed by a channel that delivers at least once, in any order.
NextDeliveries == Switch \/ Deliver

SpecDeliveries == Init /\ [][NextDeliveries]_vars

ApplyLabelled ==
    \E t \in Timestamps, s \in LabelledReports :
        UpdateUsageStats(t, s) /\ UNCHANGED << delivered, historyChanges, webview >>

\* Model switches and delayed reports with all kinds of labels.
NextLabels == Switch \/ ApplyLabelled

SpecLabels == Init /\ [][NextLabels]_vars

UpdateFromPayload ==
    \E t \in Timestamps : UpdateModelStats(t, [data |-> CompletePayload])

\* A ConversationState that stores messages between model changes and the
\* arrival of an OpenRouter payload.
NextInbox == RecordChange \/ UpdateFromPayload \/ Bind

SpecInbox == Init /\ [][NextInbox]_vars

\* The task is persisted and loaded again: a new ModelTracker is constructed
\* from what getAllChanges returns and takes the place of the old one.
Reload ==
    LET reloaded == NewModelTracker(Deref(GetAllChanges(changes)))
    IN  /\ changes' = reloaded.changes
        /\ taskTotals' = reloaded.taskTotals
        /\ processedRequests' = reloaded.processedRequests
        /\ last' = [op |-> "new", branch |-> "reloaded", idx |-> 0,
                    figures |-> Figures(EmptyStats)]
        /\ UNCHANGED << messages, reads, twin, apiReqs, delivered, historyChanges, webview >>

\* A tracker fed by an at-least-once channel across reloads of the task.
NextReload == Switch \/ Deliver \/ Reload

SpecReload == Init /\ [][NextReload]_vars

\* The figures a usage of the HistoryItem.ts revision stands for: an absent
\* usage or cache counter counts as 0.
HistoryFigures(usage) ==
    IF usage = None THEN ZeroUsage
    ELSE [tokensIn |-> usage[1].tokensIn, tokensOut |-> usage[1].tokensOut,
          cost |-> usage[1].cost,
          cacheWrites |-> OrZero(usage[1].cacheWrites),
          cacheReads |-> OrZero(usage[1].cacheReads)]

HistoryWeight(chs) ==
    Weight(CalculateTaskTotals(
               [i \in 1 .. Len(chs) |-> [usage |-> HistoryFigures(chs[i].usage)]]))

\* The same switch is recorded by the trackers of both revisions.
SwitchBoth ==
    \E m \in Models, t \in Timestamps :
        /\ AddChange(m.modelId, m.modelProvider, t)
        /\ historyChanges' = HistoryAddChange(historyChanges, m.modelId, m.modelProvider, t)
        /\ UNCHANGED webview

\* The same immediate report is handed to the trackers of both revisions.
ReportBoth ==
    \E t \in Timestamps, s \in ImmediateReports :
        /\ UpdateUsageStats(t, s)
        /\ historyChanges' = HistoryUpdateUsageStats(historyChanges, t, s)
        /\ HistoryWeight(historyChanges') <= MaxTotal
        /\ UNCHANGED << delivered, webview >>

\* The ModelTracker of model-tracking.ts and the one of HistoryItem.ts side by
\* side, given the same calls.
NextRevisions == SwitchBoth \/ ReportBoth

SpecRevisions == Init /\ [][NextRevisions]_vars

\* A switch later than every switch before it, recorded by both trackers.
SwitchBothLater ==
    \E m \in Models, t \in Timestamps :
        /\ Len(changes) > 0 => t > changes[Len(changes)].startTs
        /\ AddChange(m.modelId, m.modelProvider, t)
        /\ historyChanges' = HistoryAddChange(historyChanges, m.modelId, m.modelProvider, t)
        /\ UNCHANGED webview

\* An immediate report whose timestamp is not earlier than the latest switch,
\* handed to both trackers.
ReportBothCurrent ==
    \E t \in Timestamps, s \in ImmediateReports :
        /\ Len(changes) > 0 => t >= changes[Len(changes)].startTs
        /\ UpdateUsageStats(t, s)
        /\ historyChanges' = HistoryUpdateUsageStats(historyChanges, t, s)
        /\ HistoryWeight(historyChanges') <= MaxTotal
        /\ UNCHANGED << delivered, webview >>

\* Both revisions under switches in increasing time order and reports that
\* are never older than the latest switch.
NextInOrder == SwitchBothLater \/ ReportBothCurrent

SpecInOrder == Init /\ [][NextInOrder]_vars

\* The model badge of the history / chat view, rendered again and again.
SpecDisplay == Init /\ [][RenderStatic]_vars

\* A ModelNameProvider whose children store and look up names.
NextNames == StoreName \/ LookupName

SpecNames == Init /\ [][NextNames]_vars

SwitchSeparators ==
    \E m \in SeparatorModels, t \in Timestamps :
        AddChange(m.modelId, m.modelProvider, t) /\ UNCHANGED << historyChanges, webview >>

\* A task that uses models with separators in their names and whose usage is
\* shown per model.
NextBreakdown == SwitchSeparators \/ ApplyImmediate \/ RenderBreakdown

SpecBreakdown == Init /\ [][NextBreakdown]_vars

(* ------------------- vocabulary of the properties ---------------------- *)

\* Timestamps at which lookups are probed (one beyond the last switch time).
ProbeTimestamps == 0 .. MaxTs + 1

\* ts lies in the half-open range [startTs, endTs) of period p; an absent endTs
\* leaves the range open.
Inside(p, ts) == p.startTs <= ts /\ (p.endTs = None \/ ts < p.endTs[1])

Identity(p) == [modelId |-> p.modelId, modelProvider |-> p.modelProvider]

\* The periods were opened by switches with strictly increasing timestamps.
StrictlyIncreasingSwitches(chs) ==
    \A i \in 1 .. Len(chs) - 1 : chs[i].startTs < chs[i + 1].startTs

\* The amount a report carries in a field: an absent field counts as 0.
Amount(o) == IF o = None THEN 0 ELSE o[1]

(* ------------------------------ claims --------------------------------- *)

\* C1: after any sequence of addChange calls with strictly increasing
\* timestamps on an initially empty timeline, the periods' [startTs, endTs)
\* ranges are pairwise disjoint, exactly one period is open and it is the
\* last, and getModelForTimestamp returns the identity of the unique period
\* containing ts for every ts >= the first startTs and undefined before it.
C1_IncreasingSwitchesTimeline ==
    (Len(changes) > 0 /\ StrictlyIncreasingSwitches(changes)) =>
        /\ \A i, j \in 1 .. Len(changes) :
              i < j => /\ changes[i].endTs # None
                       /\ changes[i].startTs < changes[i].endTs[1]
                       /\ changes[i].endTs[1] <= changes[j].startTs
        /\ { i \in 1 .. Len(changes) : changes[i].endTs = None } = { Len(changes) }
        /\ \A ts \in ProbeTimestamps :
              IF ts < changes[1].startTs
              THEN GetModelForTimestamp(changes, ts) = None
              ELSE \E i \in 1 .. Len(changes) :
                      /\ Inside(changes[i], ts)
                      /\ \A j \in 1 .. Len(changes) : Inside(changes[j], ts) => j = i
                      /\ GetModelForTimestamp(changes, ts) = Some(Identity(changes[i]))

\* C1 witness: two switches at increasing times, the first later than 0, so
\* that lookups before, inside the closed and inside the open period all occur.
C1_Witness ==
    /\ last.op = "addChange"
    /\ Len(changes) >= 2
    /\ StrictlyIncreasingSwitches(changes)
    /\ changes[1].startTs >= 1
    /\ changes[1].modelId # changes[2].modelId

\* The usage u with the amounts of an immediate report added field by field.
PlusImmediate(u, s) ==
    [tokensIn    |-> u.tokensIn + Amount(s.tokensIn),
     tokensOut   |-> u.tokensOut + Amount(s.tokensOut),
     cost        |-> u.cost + Amount(s.cost),
     cacheWrites |-> u.cacheWrites + Amount(s.cacheWrites),
     cacheReads  |-> u.cacheReads + Amount(s.cacheReads)]

\* C2: updateUsageStats with an immediate report (no id, no model label, no
\* own timestamp) adds every field of the report (absent = 0) to the usage of
\* exactly the period that getModelForTimestamp finds active at the call's
\* timestamp and to the task totals, and leaves every other period's usage
\* unchanged.
C2_ImmediateAccumulates ==
    [][\A t \in Timestamps, s \in ImmediateReports :
          (/\ last'.op = "updateUsageStats"
           /\ last'.branch \in { "regular", "none" }
           /\ processedRequests' = processedRequests
           /\ ActiveChange(changes, t) # 0
           /\ UpdateUsageStats(t, s)) =>
             LET i == ActiveChange(changes, t)
             IN  /\ Len(changes') = Len(changes)
                 /\ changes'[i].usage = PlusImmediate(changes[i].usage, s)
                 /\ \A j \in 1 .. Len(changes) :
                       j # i => changes'[j].usage = changes[j].usage
                 /\ taskTotals' = PlusImmediate(taskTotals, s)]_vars

\* C2 witness: the scenario switch, report, switch, report: a closed first
\* period and an open second period each hold their own report and the task
\* totals hold both.
C2_Witness ==
    /\ last.op = "updateUsageStats" /\ last.branch = "regular" /\ last.idx = 2
    /\ Len(changes) = 2
    /\ changes[1].endTs # None
    /\ changes[1].usage = [tokensIn |-> 1, tokensOut |-> 1, cost |-> 1,
                           cacheWrites |-> 1, cacheReads |-> 0]
    /\ changes[2].usage = changes[1].usage
    /\ taskTotals = [tokensIn |-> 2, tokensOut |-> 2, cost |-> 2,
                     cacheWrites |-> 2, cacheReads |-> 0]

\* Component-wise sum of two usage snapshots.
UsagePlus(a, b) ==
    [tokensIn    |-> a.tokensIn + b.tokensIn,
     tokensOut   |-> a.tokensOut + b.tokensOut,
     cost        |-> a.cost + b.cost,
     cacheWrites |-> a.cacheWrites + b.cacheWrites,
     cacheReads  |-> a.cacheReads + b.cacheReads]

RECURSIVE SumOfValues(_, _)
\* Component-wise sum of the values f[k], k in K.
SumOfValues(f, K) ==
    IF K = { } THEN ZeroUsage
    ELSE LET k == CHOOSE x \in K : TRUE
         IN  UsagePlus(f[k], SumOfValues(f, K \ { k }))

\* Component-wise sum of the usage of the periods of chs with index in I.
SumOfPeriods(chs, I) == SumOfValues([i \in I |-> chs[i].usage], I)

\* C3: after any sequence of addChange calls and immediate reports, the
\* component-wise sum of the values of getModelStats() equals getTaskTotals().
C3_PerModelSumsToTotals ==
    SumOfValues(GetModelStats(changes), DOMAIN GetModelStats(changes)) = GetTaskTotals

\* C4: getModelStats() maps every model identity to the component-wise sum of
\* the usage of all periods of the timeline that have that identity.
C4_PerModelSumsAllPeriods ==
    \A i \in 1 .. Len(changes) :
        GetModelStats(changes)[ModelKey(changes[i])] =
            SumOfPeriods(changes,
                         { j \in 1 .. Len(changes) :
                             Identity(changes[j]) = Identity(changes[i]) })

\* The report carries a request id (a non-empty one).
HasRequestId(s) == s.id # None /\ s.id[1] # ""

\* C5: applying a delayed report whose request id has already been applied
\* is a no-op: the task totals and every period's usage stay as they are,
\* whatever happened between the two deliveries.  (Stated contrapositively:
\* no call that changes the timeline or the totals is such a delivery.)
C5_DuplicateIsNoOp ==
    [][(last'.op = "updateUsageStats" /\ << changes, taskTotals >>' # << changes, taskTotals >>)
          => ~ \E t \in Timestamps, s \in DelayedReports :
                  /\ HasRequestId(s)
                  /\ s.id[1] \in processedRequests
                  /\ UpdateUsageStats(t, s)]_vars

\* C5 witness: a delayed report has been merged into a period, and the call
\* that produced this state was a second delivery that took the early return.
C5_Witness ==
    /\ last.op = "updateUsageStats"
    /\ last.branch = "duplicate"
    /\ processedRequests # { }
    /\ \E i \in 1 .. Len(changes) : changes[i].usage.cacheReads > 0

\* The effective timestamp of a report: its own timestamp if it carries one,
\* else the timestamp of the call.
EffectiveTs(t, s) == IF s.timestamp # None THEN s.timestamp[1] ELSE t

\* The label of a delayed report is consistent with period p: the string
\* provider/modelId of the period ends with the label.
LabelFits(p, s) ==
    LET key == p.modelProvider \o << "/" >> \o p.modelId
        l == s.model[1]
    IN  \E k \in 0 .. Len(key) : SubSeq(key, k + 1, Len(key)) = l

\* C6: a delayed report whose own timestamp lies inside an earlier, already
\* closed period and whose label fits that period changes that period's
\* usage and leaves the usage of the currently open (last) period unchanged,
\* whatever the timestamp of the call.
C6_DelayedGoesToClosedPeriod ==
    [][\A t \in Timestamps, s \in DelayedReports, i \in 1 .. Len(changes) - 1 :
          (/\ last'.op = "updateUsageStats"
           /\ s.id[1] \notin processedRequests
           /\ s.timestamp # None
           /\ changes[i].endTs # None
           /\ Inside(changes[i], s.timestamp[1])
           /\ LabelFits(changes[i], s)
           /\ UpdateUsageStats(t, s)) =>
             /\ changes'[i].usage # changes[i].usage
             /\ changes'[Len(changes)].usage = changes[Len(changes)].usage]_vars

\* The final token counts and cost that a delayed report carries.
FinalFigures(s) ==
    [tokensIn  |-> Amount(s.tokens_prompt),
     tokensOut |-> Amount(s.tokens_completion),
     cost      |-> Amount(s.total_cost)]

TokenAndCost(u) == [tokensIn |-> u.tokensIn, tokensOut |-> u.tokensOut, cost |-> u.cost]

TokenAndCostDelta(new, old) ==
    [tokensIn  |-> new.tokensIn - old.tokensIn,
     tokensOut |-> new.tokensOut - old.tokensOut,
     cost      |-> new.cost - old.cost]

C8_CacheCountersAccumulate ==
    [][/\ (last'.op = "updateUsageStats" /\ Len(changes') = Len(changes)) =>
             /\ taskTotals'.cacheWrites >= taskTotals.cacheWrites
             /\ taskTotals'.cacheReads >= taskTotals.cacheReads
             /\ \A j \in 1 .. Len(changes) :
                   /\ changes'[j].usage.cacheWrites >= changes[j].usage.cacheWrites
                   /\ changes'[j].usage.cacheReads >= changes[j].usage.cacheReads
       /\ last'.branch \in { "final", "regular" } =>
             LET i == last'.idx
                 s == last'.figures
             IN  /\ changes'[i].usage.cacheWrites =
                       changes[i].usage.cacheWrites + Amount(s.cacheWrites)
                 /\ changes'[i].usage.cacheReads =
                       changes[i].usage.cacheReads + Amount(s.cacheReads)
                 /\ taskTotals'.cacheWrites =
                       taskTotals.cacheWrites + Amount(s.cacheWrites)
                 /\ taskTotals'.cacheReads =
                       taskTotals.cacheReads + Amount(s.cacheReads)]_vars

\* C8 witness: a delayed report carrying cache counters was merged into a
\* period whose cacheWrites an immediate report had already raised.
C8_Witness ==
    /\ last.op = "updateUsageStats"
    /\ last.branch = "final"
    /\ changes[last.idx].usage.cacheWrites = 2
    /\ changes[last.idx].usage.cacheReads = 1
    /\ taskTotals.cacheWrites = 2

\* C9: a delayed report whose label does not fit the period that
\* getModelForTimestamp resolves at the report's effective timestamp is
\* discarded: the task totals and every period's usage are unchanged (no
\* other period is chosen instead).
C9_MismatchedLabelIsDiscarded ==
    [][\A t \in Timestamps, s \in DelayedReports :
          (/\ last'.op = "updateUsageStats"
           /\ ActiveChange(changes, EffectiveTs(t, s)) # 0
           /\ ~ LabelFits(changes[ActiveChange(changes, EffectiveTs(t, s))], s)
           /\ UpdateUsageStats(t, s)) =>
             /\ changes' = changes
             /\ taskTotals' = taskTotals]_vars

\* C10: a report of either shape applied when the timeline is empty or when
\* its effective timestamp is earlier than the first period's startTs is
\* dropped: the task totals and every period's usage are unchanged.
C10_OrphanIsDropped ==
    [][\A t \in Timestamps, s \in Reports :
          (/\ last'.op = "updateUsageStats"
           /\ (changes = << >> \/ EffectiveTs(t, s) < changes[1].startTs)
           /\ UpdateUsageStats(t, s)) =>
             /\ changes' = changes
             /\ taskTotals' = taskTotals]_vars

\* C11: a delayed report that lacks a field required for its shape (the
\* final token counts, the final cost or the model label) is dropped: the
\* task totals and every period's usage are the same after the call as
\* before it.
C11_MalformedIsDropped ==
    [][\A t \in Timestamps, s \in MalformedReports :
          (last'.op = "updateUsageStats" /\ UpdateUsageStats(t, s)) =>
              /\ taskTotals' = taskTotals
              /\ changes' = changes]_vars

\* C12: a message added while its ts lies inside period P carries P's
\* (modelId, modelProvider) from then on: the call that adds it tags it with
\* P's identity, and no later recordModelChange, updateModelStats or
\* addMessage changes the tag of a message that is already stored.
C12_BoundTagIsPeriodAndStays ==
    [][/\ \A k \in 1 .. Len(messages) :
             /\ Len(messages') >= k
             /\ messages'[k] = messages[k]
       /\ \A ts \in Timestamps, i \in 1 .. Len(changes) :
             (/\ last'.op = "addMessage"
              /\ Inside(changes[i], ts)
              /\ AddMessage(ts)) =>
                 messages'[Len(messages')].model = Some(Identity(changes[i]))]_vars

\* C13: addChange(modelId, modelProvider, ts) sets endTs = ts on the last
\* period if and only if that period has no endTs, and always appends
\* exactly one new open period {modelId, modelProvider, startTs: ts, usage
\* all zero}, also when the new identity equals that of the last period;
\* nothing else of the timeline changes.
C13_SwitchClosesOpenAndAppends ==
    [][\A m \in Models, t \in Timestamps :
          (last'.op = "addChange" /\ AddChange(m.modelId, m.modelProvider, t)) =>
             LET n == Len(changes)
             IN  /\ Len(changes') = n + 1
                 /\ changes'[n + 1] =
                       [modelId |-> m.modelId, modelProvider |-> m.modelProvider,
                        startTs |-> t, endTs |-> None, usage |-> ZeroUsage]
                 /\ \A j \in 1 .. n - 1 : changes'[j] = changes[j]
                 /\ n > 0 =>
                       /\ changes[n].endTs = None =>
                             changes'[n] = [changes[n] EXCEPT !.endTs = Some(t)]
                       /\ changes[n].endTs # None => changes'[n] = changes[n]]_vars

\* C13 witness: a switch to the identity the open period already had: the
\* earlier period, holding usage, was closed at the time of the switch and a
\* second period with the same identity and zero usage was appended.
C13_Witness ==
    /\ last.op = "addChange"
    /\ Len(changes) = 2
    /\ Identity(changes[1]) = Identity(changes[2])
    /\ changes[1].startTs = 0
    /\ changes[2].startTs = 2
    /\ changes[1].endTs = Some(2)
    /\ changes[1].usage.tokensIn > 0
    /\ changes[2].usage = ZeroUsage
    /\ changes[2].endTs = None

\* getCurrentModel gives the identity of the last period exactly if that
\* period has no endTs, and undefined for an empty timeline or a closed last
\* period.
CurrentIsOpenLast ==
    GetCurrentModel(changes) =
        IF Len(changes) > 0 /\ changes[Len(changes)].endTs = None
        THEN Some(Identity(changes[Len(changes)]))
        ELSE None

\* C14: getCurrentModel returns the identity of the last period iff that
\* period has no endTs and undefined when the timeline is empty or was
\* loaded with a closed last period; right after addChange(m, p, ts) it
\* returns (m, p); and updateUsageStats never changes what it returns.
C14_CurrentModel ==
    /\ [] CurrentIsOpenLast
    /\ [][/\ \A m \in Models, t \in Timestamps :
               (last'.op = "addChange" /\ AddChange(m.modelId, m.modelProvider, t)) =>
                   GetCurrentModel(changes') = Some(m)
          /\ last'.op = "updateUsageStats" =>
                   GetCurrentModel(changes') = GetCurrentModel(changes)]_vars

\* C14 witness: a tracker loaded with a closed last period has merged a
\* report into that period and still has no current model.
C14_Witness ==
    /\ last.op = "updateUsageStats"
    /\ last.branch = "regular"
    /\ Len(changes) = 1
    /\ changes[1].endTs # None
    /\ changes[1].usage.tokensIn = 2
    /\ GetCurrentModel(changes) = None

\* Indices of the periods with startTs <= ts and (endTs absent or endTs > ts).
Containing(chs, ts) == { i \in 1 .. Len(chs) : Inside(chs[i], ts) }

\* C15: getModelForTimestamp(ts) returns the first period in timeline order
\* with startTs <= ts and (endTs absent or endTs > ts), and undefined if
\* there is none; the range is half-open, so at the timestamp of a switch
\* the newly opened period is returned and not the one closed there.
C15_LookupIsFirstContaining ==
    \A ts \in ProbeTimestamps :
        GetModelForTimestamp(changes, ts) =
            IF Containing(changes, ts) = { } THEN None
            ELSE LET i == CHOOSE x \in Containing(changes, ts) :
                              \A y \in Containing(changes, ts) : x <= y
                 IN  Some(Identity(changes[i]))

\* C16: in every reachable state of a tracker constructed empty or from
\* persisted periods and driven by addChange and by immediate and delayed
\* reports (dropped and duplicate ones included), the component-wise sum of
\* all periods' usage equals the task totals.
C16_PeriodsSumToTotals ==
    SumOfPeriods(changes, 1 .. Len(changes)) = taskTotals

\* C16 witness: a tracker loaded with one closed period has merged a delayed
\* report into it: the totals are the loaded usage plus the final figures.
C16_Witness ==
    /\ last.op = "updateUsageStats"
    /\ last.branch = "final"
    /\ Len(changes) = 1
    /\ changes[1].endTs # None
    /\ taskTotals = [tokensIn |-> 3, tokensOut |-> 2, cost |-> 2,
                     cacheWrites |-> 2, cacheReads |-> 1]

\* C17: in every state reached from an empty timeline by addChange calls
\* with arbitrary timestamps (not necessarily increasing or distinct), every
\* period's endTs is absent or strictly greater than its startTs.
C17_EndAfterStart ==
    \A i \in 1 .. Len(changes) :
        changes[i].endTs = None \/ changes[i].endTs[1] > changes[i].startTs

\* C18: in every state reached from an empty timeline by addChange and
\* updateUsageStats calls, at most one period has an absent endTs, and if
\* there is one it is the last period of the timeline.
C18_OnlyLastIsOpen ==
    \A i \in 1 .. Len(changes) : changes[i].endTs = None => i = Len(changes)

\* C18 witness: after two switches at the same timestamp and a report, the
\* first period is closed (at its own startTs) and only the last is open.
C18_Witness ==
    /\ last.op = "updateUsageStats"
    /\ Len(changes) = 2
    /\ changes[1].startTs = changes[2].startTs
    /\ changes[1].endTs # None
    /\ changes[2].endTs = None
    /\ taskTotals # ZeroUsage

\* The (modelId, modelProvider, startTs) triple of a period.
Triple(p) == << p.modelId, p.modelProvider, p.startTs >>

\* C19: the timeline is append-only: across every operation the sequence of
\* (modelId, modelProvider, startTs) triples before it is a prefix of the
\* sequence after it, and an endTs that has been set is never changed again.
C19_AppendOnly ==
    [][/\ Len(changes') >= Len(changes)
       /\ \A i \in 1 .. Len(changes) :
             /\ Triple(changes'[i]) = Triple(changes[i])
             /\ changes[i].endTs # None => changes'[i].endTs = changes[i].endTs]_vars

\* C19 witness: a switch at timestamp 2 on a timeline whose last period had
\* been closed at 1 before: the period keeps its endTs 1 and its place, and
\* the new period follows it.
C19_Witness ==
    /\ last.op = "addChange"
    /\ Len(changes) = 2
    /\ changes[1].endTs = Some(1)
    /\ changes[2].startTs = 2
    /\ changes[2].endTs = None

\* C20: what getTaskTotals, getModelStats and getAllChanges returned are
\* copies: whatever addChange and updateUsageStats calls follow the read,
\* the returned totals, the returned per-model map and the periods inside
\* the returned list (their endTs and usage included) still show what they
\* showed when they were returned.
C20_ReadsAreCopies ==
    reads # None =>
        [totals |-> reads[1].totals, perModel |-> reads[1].perModel,
         all |-> Deref(reads[1].all)]
      = [totals |-> reads[1].totals, perModel |-> reads[1].perModel,
         all |-> reads[1].seen]

\* C21: two trackers share no mutable state: whatever addChange and
\* updateUsageStats calls are made on one tracker, the reads of the other
\* (getAllChanges, getTaskTotals, getModelStats, getCurrentModel) return
\* what they returned before those calls, also when both trackers were
\* constructed from the same persisted period list.
C21_TrackersAreIndependent ==
    twin # None =>
        LET now == Deref(twin[1].changes)
            before == twin[1].built
        IN  /\ now = before
            /\ twin[1].taskTotals = CalculateTaskTotals(before)
            /\ GetModelStats(now) = GetModelStats(before)
            /\ GetCurrentModel(now) = GetCurrentModel(before)

\* C22: for every reachable tracker T, the tracker constructed from
\* T.getAllChanges() has the same ordered periods (identity, startTs, endTs,
\* usage) as T, and its task totals equal the component-wise sum of those
\* periods' usage and equal T's task totals.
C22_ReloadRoundTrip ==
    LET reloaded == NewModelTracker(Deref(GetAllChanges(changes)))
    IN  /\ reloaded.changes = changes
        /\ reloaded.taskTotals =
               SumOfPeriods(reloaded.changes, 1 .. Len(reloaded.changes))
        /\ reloaded.taskTotals = GetTaskTotals

\* C22 witness: a tracker with a closed period that holds a delayed report
\* and an open period that holds an immediate report.
C22_Witness ==
    /\ last.op = "updateUsageStats"
    /\ Len(changes) = 2
    /\ changes[1].endTs # None
    /\ changes[1].usage.cacheReads > 0
    /\ changes[2].usage.tokensIn = 1
    /\ taskTotals.tokensIn = 3

\* C23: getModelTracker builds the tracker from the model changes of the
\* latest api_req_started message that carries model changes: when the
\* messages carry successive snapshots of one timeline, the periods of the
\* resulting tracker are those of the latest snapshot and no period is in an
\* earlier version.  (Stated for timelines whose switches were made at
\* strictly increasing timestamps.)
C23_TrackerFromLatestSnapshot ==
    (apiReqs # << >> /\ StrictlyIncreasingSwitches(apiReqs[Len(apiReqs)])) =>
        GetModelTracker(apiReqs).changes = apiReqs[Len(apiReqs)]

\* C24: the ledger never over-counts.  Whatever the order of the switches and
\* the deliveries, and however often a delayed report is delivered again, each
\* component of the task totals is at most the sum of that component over the
\* distinct reports delivered (delayed reports being distinct by request id).
C24_NeverOverCounts ==
    \A c \in DOMAIN taskTotals : taskTotals[c] <= delivered.sum[c]

\* Both delayed reports were delivered, one of them merged and the other
\* dropped, and a later delivery of a report already seen left the totals
\* below what was delivered.
C24_Witness ==
    /\ last.op = "updateUsageStats" /\ last.branch = "duplicate"
    /\ delivered.ids = { "r1", "r2" }
    /\ taskTotals.cacheReads = 1 /\ delivered.sum.cacheReads = 2
    /\ taskTotals.tokensOut = 1 /\ delivered.sum.tokensOut = 1

\* C25: an OpenRouter payload { data: { id, model, total_cost, tokens_prompt,
\* tokens_completion, created_at } } handed to updateModelStats after the
\* conversation switched from the model the payload names to another one is
\* merged into the period of the model that served the request: it is not
\* dropped, and the period active at delivery time is left alone.
C25_DelayedPayloadGoesToRequestPeriod ==
    [][\A t \in Timestamps :
          ( /\ Len(changes) = 2
            /\ changes[1].endTs # None /\ changes[1].startTs < changes[1].endTs[1]
            /\ changes[1].endTs[1] = changes[2].startTs
            /\ changes[2].endTs = None
            /\ LabelFits(changes[1], CompletePayload)
            /\ Identity(changes[2]) # Identity(changes[1])
            /\ changes[2].startTs <= t
            /\ "r1" \notin processedRequests
            /\ UpdateModelStats(t, [data |-> CompletePayload]) )
          => /\ changes'[1].usage = UsageAfterFinal(changes[1].usage, CompletePayload)
             /\ changes'[2].usage = changes[2].usage]_vars

\* C26: the set of processed request ids only grows.  Every operation leaves
\* the ids that were in the set in it, and after updateUsageStats was given a
\* report with a non-empty request id, that id is in the set, whether the
\* report was merged, dropped or recognised as a duplicate.
C26_ProcessedRequestsOnlyGrows ==
    [][/\ processedRequests \subseteq processedRequests'
       /\ \A t \in Timestamps, s \in RedeliveredReports :
              (TruthyId(s.id) /\ UpdateUsageStats(t, s))
                  => s.id[1] \in processedRequests']_vars

\* Two requests were reported; the second one found no period, and its id
\* joined the id of the first.
C26_Witness ==
    /\ last.op = "updateUsageStats" /\ last.branch = "none"
    /\ processedRequests = { "r1", "r2" }
    /\ taskTotals.cacheReads = 1

NonNegative(u) == \A c \in DOMAIN u : u[c] >= 0

\* C27: with reports whose fields are non-negative integers, every field of
\* every period's usage and of the task totals is >= 0 in every reachable
\* state, and no immediate report lowers the cost of any period.
C27_NonNegativeAndCostMonotone ==
    /\ [](NonNegative(taskTotals)
            /\ \A i \in 1 .. Len(changes) : NonNegative(changes[i].usage))
    /\ [][(last'.op = "updateUsageStats" /\ last'.figures.total_cost = None)
            => \A i \in 1 .. Len(changes) :
                   changes'[i].usage.cost >= changes[i].usage.cost]_vars

\* An immediate report with a cost was merged into the open period while the
\* closed period keeps the cost of an earlier immediate report.
C27_Witness ==
    /\ last.op = "updateUsageStats" /\ last.branch = "regular"
    /\ last.figures.cost = Some(1)
    /\ Len(changes) = 2 /\ last.idx = 2
    /\ changes[2].usage.cost = 1 /\ changes[1].usage.cost = 1
    /\ taskTotals.cost = 2

\* The periods in whose time range the lookup of updateUsageStats finds the
\* request of report s handed over at call time t.
Candidates(t, s) ==
    { i \in 1 .. Len(changes) : BelongsToThisPeriod(changes[i], RequestStartTime(t, s)) }

\* C28: the label of a delayed report is consistent with a period exactly if
\* modelProvider + "/" + modelId of the period ends with the label.  A new
\* delayed report is merged only into a period whose key ends with its label;
\* it is merged whenever a period its request time lies in has the label as
\* its bare modelId, as its full key, or as any other suffix of the key; and it
\* is dropped when the label is a suffix of the key of none of them.
C28_LabelMatchesBySuffix ==
    [][\A t \in Timestamps, s \in LabelledReports :
          ( /\ last'.op = "updateUsageStats"
            /\ s.id[1] \notin processedRequests
            /\ UpdateUsageStats(t, s) )
          => LET fitting == { i \in Candidates(t, s) : LabelFits(changes[i], s) }
                 named   == { i \in Candidates(t, s) :
                                 \/ s.model[1] = changes[i].modelId
                                 \/ s.model[1] = ModelKey(changes[i]) }
             IN  /\ named \subseteq fitting
                 /\ last'.idx # 0 => last'.idx \in fitting
                 /\ fitting # { } =>
                        /\ last'.idx \in fitting
                        /\ changes'[last'.idx].usage
                              = UsageAfterFinal(changes[last'.idx].usage, s)
                 /\ fitting = { } =>
                        /\ last'.idx = 0
                        /\ changes' = changes /\ taskTotals' = taskTotals]_vars

\* A report labelled with the bare modelId was merged into the closed period
\* of that model.
C28_Witness ==
    /\ last.op = "updateUsageStats" /\ last.branch = "final" /\ last.idx = 1
    /\ Len(changes) = 2 /\ changes[1].endTs # None
    /\ changes[1].modelId = << "g" >> /\ changes[2].modelId = << "c" >>
    /\ changes[1].usage.tokensIn = 2 /\ changes[2].usage.tokensIn = 0

C30_WritersFrame ==
    [][/\ last'.op = "addChange" =>
             /\ taskTotals' = taskTotals
             /\ Len(changes') >= Len(changes)
             /\ \A i \in 1 .. Len(changes) : changes'[i].usage = changes[i].usage
       /\ last'.op = "updateUsageStats" =>
             /\ Len(changes') = Len(changes)
             /\ \A i \in 1 .. Len(changes) :
                    /\ changes'[i].modelId = changes[i].modelId
                    /\ changes'[i].modelProvider = changes[i].modelProvider
                    /\ changes'[i].startTs = changes[i].startTs
                    /\ changes'[i].endTs = changes[i].endTs]_vars

\* A switch has just closed a period that holds usage of a merged report.
C30_Witness ==
    /\ last.op = "addChange" /\ Len(changes) = 2
    /\ changes[1].startTs = 0 /\ changes[1].endTs = Some(2) /\ changes[2].startTs = 2
    /\ changes[1].usage.tokensIn = 2 /\ changes[1].usage.cost = 1
    /\ taskTotals.tokensIn = 2

\* C31: the request id is recorded before the owning period is looked up.
\* Every id handed over is in processedRequests, also when its report was
\* dropped, and a delayed report whose id was handed over before changes no
\* period and no total, even if by now a period would accept it.
C31_DroppedFirstDeliveryBlocksLater ==
    /\ [](delivered.ids \subseteq processedRequests)
    /\ [][( /\ last'.op = "updateUsageStats"
             /\ last'.figures.total_cost # None
             /\ delivered'.ids = delivered.ids )
           => /\ changes' = changes
              /\ taskTotals' = taskTotals
              /\ processedRequests' = processedRequests]_vars

\* The report of r1 was dropped at its first delivery (nothing of it is in the
\* totals); it has just been delivered again and ignored, although the open
\* openai period would take it at any call time from its start on.
C31_Witness ==
    /\ last.op = "updateUsageStats" /\ last.branch = "duplicate"
    /\ delivered.ids = { "r1" } /\ delivered.sum.cacheReads = 1
    /\ taskTotals.cacheReads = 0
    /\ Len(changes) = 1 /\ changes[1].modelId = << "g" >> /\ changes[1].endTs = None
    /\ changes[1].startTs = 1

\* The periods were opened by switches with non-decreasing timestamps.
NonDecreasingSwitches(chs) ==
    \A i \in 1 .. Len(chs) - 1 : chs[i].startTs <= chs[i + 1].startTs

\* The period opened last among those with startTs <= ts, 0 if there is none.
LatestOpenedBy(chs, ts) ==
    LET opened == { i \in 1 .. Len(chs) : chs[i].startTs <= ts }
    IN  IF opened = { } THEN 0 ELSE CHOOSE i \in opened : \A j \in opened : j <= i

\* C32: timestamp 0 and repeated timestamps are handled like any other value.
\* After switches with non-decreasing timestamps >= 0, getModelForTimestamp(ts)
\* is the identity of the period opened last among those with startTs <= ts
\* (a period closed at its own startTs, also at 0, never matches), and a
\* delayed report whose own timestamp is 0 is resolved at 0, not at the
\* timestamp of the call.
C32_ZeroIsAnOrdinaryTimestamp ==
    /\ [](NonDecreasingSwitches(changes) =>
             \A ts \in ProbeTimestamps :
                 GetModelForTimestamp(changes, ts)
                   = IF LatestOpenedBy(changes, ts) = 0 THEN None
                     ELSE Some(Identity(changes[LatestOpenedBy(changes, ts)])))
    /\ [][\A t \in Timestamps, s \in DelayedReports :
             ( /\ last'.op = "updateUsageStats"
               /\ s.timestamp = Some(0)
               /\ NonDecreasingSwitches(changes)
               /\ s.id[1] \notin processedRequests
               /\ UpdateUsageStats(t, s) )
             => last'.idx = ModelForRequest(changes, 0, [s EXCEPT !.timestamp = None])]_vars

\* C33: deduplication survives persist/reload.  When every report handed over
\* so far was merged, a delayed report whose request id was handed over
\* before, to this tracker or to the tracker it was reloaded from, changes no
\* period's usage and no total.
C33_DedupSurvivesReload ==
    [][( /\ last'.op = "updateUsageStats"
         /\ last'.figures.total_cost # None
         /\ delivered'.ids = delivered.ids
         /\ taskTotals = delivered.sum )
       => /\ changes' = changes
          /\ taskTotals' = taskTotals]_vars

\* C34: in the HistoryItem.ts revision updateUsageStats(timestamp, stats) adds
\* the stats to the last period of the timeline, whatever the timestamp is
\* and whichever period was active at it, and leaves every other period as it
\* was; with an empty timeline it does nothing.
C34_HistoryAttributesToLastPeriod ==
    [][last'.op = "updateUsageStats" =>
          LET n == Len(historyChanges)
              given == [tokensIn |-> OrZero(last'.figures.tokensIn),
                        tokensOut |-> OrZero(last'.figures.tokensOut),
                        cost |-> OrZero(last'.figures.cost),
                        cacheWrites |-> OrZero(last'.figures.cacheWrites),
                        cacheReads |-> OrZero(last'.figures.cacheReads)]
          IN  /\ Len(historyChanges') = n
              /\ \A i \in 1 .. n - 1 : historyChanges'[i] = historyChanges[i]
              /\ n > 0 =>
                    /\ historyChanges'[n].usage # None
                    /\ HistoryFigures(historyChanges'[n].usage)
                          = UsagePlus(HistoryFigures(historyChanges[n].usage), given)
                    /\ [historyChanges'[n] EXCEPT !.usage = None]
                          = [historyChanges[n] EXCEPT !.usage = None]]_vars

\* A report whose timestamp lies in the first, closed period (where the tracker
\* of model-tracking.ts put it) went to the second period.
C34_Witness ==
    /\ last.op = "updateUsageStats" /\ last.branch = "regular" /\ last.idx = 1
    /\ last.figures.tokensIn = Some(1)
    /\ Len(historyChanges) = 2
    /\ historyChanges[1].usage = None
    /\ HistoryFigures(historyChanges[2].usage).tokensIn = 1
    /\ changes[1].usage.tokensIn = 1

\* C35 as stated: after switches with strictly increasing timestamps and
\* immediate reports not older than the latest switch, getAllChanges of the
\* HistoryItem.ts tracker and of the model-tracking.ts tracker show the same
\* usage for every period: the same five fields with the same values.
C35_RevisionsShowSameUsage ==
    /\ Len(historyChanges) = Len(changes)
    /\ \A i \in 1 .. Len(changes) :
          LET h == HistoryGetAllChanges(historyChanges)[i].usage
              u == Deref(GetAllChanges(changes))[i].usage
          IN  /\ h # None
              /\ h[1].tokensIn = u.tokensIn /\ h[1].tokensOut = u.tokensOut
              /\ h[1].cost = u.cost
              /\ h[1].cacheWrites = Some(u.cacheWrites)
              /\ h[1].cacheReads = Some(u.cacheReads)

\* C35 amended: under the same calls both trackers hold the same periods and
\* the same usage figures for every period, where a usage or a cache counter
\* that the HistoryItem.ts tracker leaves undefined counts as 0.
C35_RevisionsShowSameFigures ==
    /\ Len(historyChanges) = Len(changes)
    /\ \A i \in 1 .. Len(changes) :
          /\ HistoryFigures(HistoryGetAllChanges(historyChanges)[i].usage)
                = Deref(GetAllChanges(changes))[i].usage
          /\ [historyChanges[i] EXCEPT !.usage = None]
                = [changes[i] EXCEPT !.usage = None]

\* Both periods received a report while they were the current one.
C35_Witness ==
    /\ last.op = "updateUsageStats" /\ last.idx = 2
    /\ Len(changes) = 2
    /\ changes[1].usage.cost = 1 /\ changes[2].usage.cost = 1
    /\ HistoryFigures(historyChanges[1].usage).cost = 1
    /\ HistoryFigures(historyChanges[2].usage).cost = 1

\* A name prop counts as given if it is there and not empty.
Given(o) == o # None /\ o[1] # << >>

\* C36: the model shown by StaticModelIdentifier (history / chat view) is the
\* directly supplied (modelProvider, modelId) if both are given; otherwise the
\* result of getModelForTimestamp(timestamp) on a tracker built from the
\* task's persisted modelChanges if that resolves; otherwise the task's
\* nominal (modelProvider, modelId); otherwise 'Unknown Model'.
C36_DisplayFallbackOrder ==
    webview.shown # None =>
        LET p == webview.props[1]
            task == p.currentTask
            resolved ==
                IF task = None THEN None
                ELSE IF task[1].modelChanges = None THEN None
                ELSE GetModelForTimestamp(task[1].modelChanges[1], p.timestamp)
            expected ==
                IF Given(p.modelProvider) /\ Given(p.modelId)
                THEN p.modelProvider[1] \o << " " >> \o p.modelId[1]
                ELSE IF resolved # None
                THEN resolved[1].modelProvider \o << " " >> \o resolved[1].modelId
                ELSE IF task # None /\ Given(task[1].modelProvider)
                                   /\ Given(task[1].modelId)
                THEN task[1].modelProvider[1] \o << " " >> \o task[1].modelId[1]
                ELSE << "Unknown Model" >>
        IN  webview.shown[1] = expected

\* Only an empty modelId was supplied directly; the timestamp lies in the
\* openai period of the task's model changes, and that model is shown although
\* the task's nominal model is another one.
C36_Witness ==
    /\ webview.shown = Some(<< "o", " ", "g" >>)
    /\ webview.props[1].modelProvider = None
    /\ webview.props[1].modelId = Some(<< >>)
    /\ webview.props[1].currentTask # None
    /\ webview.props[1].currentTask[1].modelProvider = Some(<< "a" >>)
    /\ webview.props[1].currentTask[1].modelId = Some(<< "c" >>)

\* C37: storeModelName is write-once per timestamp.  A non-empty name stored
\* for a timestamp stays the name stored for it under every later call, also
\* a call that offers another name for the same timestamp.
C37_StoreIsWriteOnce ==
    [][\A ts \in DOMAIN webview.modelNameRef :
          webview.modelNameRef[ts] # << >> =>
              /\ ts \in DOMAIN webview'.modelNameRef
              /\ webview'.modelNameRef[ts] = webview.modelNameRef[ts]]_vars

\* storeModelName was just called with another name for a timestamp that
\* already had one, and the first name is still there.
C37_Witness ==
    /\ last.op = "storeModelName"
    /\ webview.props[1].timestamp = 1
    /\ webview.props[1].modelName = << "a", "/", "c" >>
    /\ 1 \in DOMAIN webview.modelNameRef
    /\ webview.modelNameRef[1] = << "o", "/", "g" >>

\* The stored timestamps that are <= ts.
StoredUpTo(ref, ts) == { k \in DOMAIN ref : k <= ts }

\* C38: getModelName(ts) is the name stored under the greatest stored
\* timestamp <= ts and 'Unknown Model' when no stored timestamp is <= ts, and
\* storing a name under a later timestamp changes the result for no earlier
\* ts.
C38_LookupIsLatestNotAfter ==
    /\ [](\A ts \in ProbeTimestamps :
             LET ref == webview.modelNameRef
             IN  /\ StoredUpTo(ref, ts) = { } => GetModelName(ref, ts) = << "Unknown Model" >>
                 /\ \A k \in StoredUpTo(ref, ts) :
                        (\A j \in StoredUpTo(ref, ts) : j <= k)
                            => GetModelName(ref, ts) = ref[k])
    /\ [](last.op = "getModelName" =>
             webview.shown[1] = GetModelName(webview.modelNameRef, webview.props[1].timestamp))
    /\ [][last'.op = "storeModelName" =>
             \A ts \in ProbeTimestamps :
                 ts < webview'.props[1].timestamp =>
                     GetModelName(webview'.modelNameRef, ts)
                       = GetModelName(webview.modelNameRef, ts)]_vars

\* A lookup at a timestamp between two stored ones returned the earlier name.
C38_Witness ==
    /\ last.op = "getModelName"
    /\ webview.props[1].timestamp = 1
    /\ DOMAIN webview.modelNameRef = { 0, 2 }
    /\ webview.modelNameRef[0] = << "o", "/", "g" >>
    /\ webview.modelNameRef[2] = << "a", "/", "c" >>
    /\ webview.shown = Some(<< "o", "/", "g" >>)

\* The different (modelProvider, modelId) pairs on the timeline.
Identities(chs) == { Identity(chs[i]) : i \in 1 .. Len(chs) }

\* C39: the per-model aggregation keys are injective on model identity.  Two
\* periods with different (modelProvider, modelId) never share an entry of
\* getModelStats (key provider + "/" + modelId) or of calculateModelUsage (key
\* provider + "-" + modelId), also when the names contain "/" or "-": both
\* have one entry per identity.
C39_AggregationKeysInjective ==
    /\ Cardinality(DOMAIN GetModelStats(changes)) = Cardinality(Identities(changes))
    /\ Len(CalculateModelUsage(changes)) = Cardinality(Identities(changes))
    /\ webview.shown # None /\ last.op = "calculateModelUsage" =>
           Len(webview.shown[1]) = Cardinality(Identities(changes))

====
